---- MODULE Spec2Model ----
(***************************************************************************)
(* The <deepgram-agent> custom element of src/src/index.ts as a state      *)
(* machine: the connect routine with its awaits, the socket-open race of   *)
(* openWebSocket, the inbound message handler, the playback scheduler, the *)
(* debounced idle timer and the teardown run by disconnect.                *)
(*                                                                         *)
(* One action is one task of the browser's event loop together with the    *)
(* microtasks it queues: an await of an already settled promise continues  *)
(* inside the action that settled it.                                      *)
(***************************************************************************)
EXTENDS Integers, Sequences, FiniteSets, TLC

\* ------------------------------------------------------------------ bounds
MaxSockets == 2      \* sockets created during one behaviour
MaxSessions == 1     \* of them, under the full environment of Spec
MaxDisc == 1         \* disconnect() calls in flight besides the one run by connect
MaxSources == 2      \* buffer sources whose "ended" listener is still attached
MaxTime == 30        \* last value of the playback clock

\* --------------------------------------------------------------- constants
ConnectionTimeoutMs == 10000
Unset == -1
NaN == -1            \* Number() of a string that is not a number

FrameLens == {0, 10, 20}     \* samples in an inbound binary frame
SockIds == 1..MaxSockets
AwaitedSlot == MaxDisc + 1   \* the disconnect awaited by restart or disconnectedCallback
DiscIds == 0..AwaitedSlot    \* slot 0 is the disconnect run by connect on failure

\* AgentEvent
NO_KEY == "no key"
NO_URL == "no url"
NO_CONFIG == "no config"
EMPTY_AUDIO == "empty audio"
SOCKET_OPEN == "socket open"
SOCKET_CLOSE == "socket close"
CONNECTION_TIMEOUT == "connection timeout"
FAILED_SETUP == "failed setup"
FAILED_TO_CONNECT_USER_MEDIA == "failed to connect user media"
UNKNOWN_MESSAGE == "unknown message"
STRUCTURED_MESSAGE == "structured message"
CLIENT_MESSAGE == "client message"

\* MessageType, and the other text frames a server can send
UserStartedSpeaking == "UserStartedSpeaking"
EndOfThought == "EndOfThought"
AgentStartedSpeaking == "AgentStartedSpeaking"
AgentAudioDone == "AgentAudioDone"
OtherType == "Other"          \* well-formed JSON object of another type
NoType == "NoType"            \* well-formed JSON object without a type
NullJson == "null"            \* the JSON text null
FalsyJson == "0"              \* a JSON text whose value is falsy: 0, false, ""
Malformed == "Malformed"      \* text that JSON.parse rejects
TurnFrames ==
  {UserStartedSpeaking, EndOfThought, AgentStartedSpeaking, AgentAudioDone,
   OtherType, Malformed}
TextFrames == TurnFrames \cup {NoType, NullJson, FalsyJson}

\* Sender
User == "User"
Agent == "Agent"
NoSender == "null"

\* VoiceBotStatus, as the orb-state attribute of the hoop ("unset" before attach)
Active == "active"
Sleeping == "sleeping"
NotStarted == "not-started"

VARIABLES
  apiKey,                    \* TRUE iff this.apiKey !== undefined
  url,                       \* url attribute: "absent", "valid", "invalid"
  config,                    \* config attribute: "absent", "json", "malformed"
  idleTimeoutMs,             \* idle-timeout-ms attribute: "absent", "100", "250", "abc"
  ctxState,                  \* micContext/ttsContext: "none", "running", "suspended", "closed"
  currentTime,               \* ttsContext.currentTime, in samples
  socket,                    \* this.socket: 0 is null, else a socket id
  sockets,                   \* every WebSocket created so far, by id
  nSockets,                  \* number of sockets created
  microphone,                \* TRUE iff this.microphone is not null
  nodesWired,                \* TRUE iff connectNodes' links are connected
  scheduledPlaybackSources,  \* set of [start, end]
  stopped,                   \* sources stopped by stopTts whose "ended" is still due
  startTime,                 \* this.startTime
  activeSender,              \* this.activeSender
  startIdleTimeout,          \* the debounced function: [fn, delay, pending]
  orbState,                  \* hoop orb-state attribute
  attached,                  \* connectedCallback has run
  cpc,                       \* position of the connect() in flight
  r1,                        \* connect's first pairResults argument, once known
  configAttr,                \* connect's local configAttr
  inputs,                    \* connect's locals apiKey and url, once read
  atCall,                    \* history: this.apiKey and the url attribute when connect() was called
  connSock,                  \* socket created by the current/last attempt, 0 if none
  connEvents,                \* events dispatched by the current/last attempt itself
  disc,                      \* disconnect() calls in flight, by slot
  dispatched,                \* events dispatched by the last step, in order
  threw,                     \* the last step raised out of its entry point
  frame,                     \* the inbound frame the last step handled, if any
  sent,                      \* payloads the last step put on this.socket, in order
  pure,                      \* a pure function's arguments and, once applied, result
  hoop,                      \* the deepgram-hoop element: its shape and its animation frame requests
  midConnect                 \* history: disconnect() was called during the current/last attempt

vars ==
  <<apiKey, url, config, idleTimeoutMs, ctxState, currentTime, socket, sockets,
    nSockets, microphone, nodesWired, scheduledPlaybackSources, stopped, startTime,
    activeSender, startIdleTimeout, orbState, attached, cpc, r1, configAttr, inputs, atCall,
    connSock, connEvents, disc, dispatched, threw, frame, sent, pure, hoop, midConnect>>

ambientVars == <<apiKey, url, config, idleTimeoutMs>>
playVars == <<scheduledPlaybackSources, stopped, startTime>>
connVars == <<cpc, r1, configAttr, inputs, atCall, connSock, connEvents, midConnect>>

\* dispatch: a CustomEvent of the element
Event(variant, detail) == [variant |-> variant, detail |-> detail]

\* a MessageEvent of the socket
NoFrame == [kind |-> "none", text |-> "", len |-> 0]
BinaryFrame(len) == [kind |-> "binary", text |-> "", len |-> len]
TextFrame(m) == [kind |-> "text", text |-> m, len |-> 0]

\* ------------------------------------------------------------ true-myth Result
Ok(v) == [isOk |-> TRUE, val |-> v]
Err(e) == [isOk |-> FALSE, val |-> e]

\* the first failure is the second argument's
pairResultsRightWins(ra, rb) ==
  IF ~rb.isOk THEN rb
  ELSE IF ~ra.isOk THEN ra
  ELSE Ok(<<ra.val, rb.val>>)

\* r1.andThen((ok1) => r2.map((ok2) => [ok1, ok2])): the first failure, in
\* argument order, is the result
pairResults(ra, rb) ==
  IF ~ra.isOk THEN ra
  ELSE IF ~rb.isOk THEN rb
  ELSE Ok(<<ra.val, rb.val>>)

NoResult == [isOk |-> FALSE, val |-> "none"]

\* ------------------------------------------------------------ deepgram-hoop
\* Lengths are in hundredths (deflation) and in units of pi/300 (rocking angle);
\* times are in milliseconds; a ratio is a record [num, den].
ROCKING_TRANSITION_TIME_MS == 1000
DEFLATE_TRANSITION_TIME_MS == 1000
INFLATE_TRANSITION_TIME_MS == 300

\* the time between two animation frames
FrameMs == 250

MaxFrames == 7
MaxChanges == 3

VoiceBotStatus == {"active", "sleeping", "not-started"}

deflationDepth(orbStateValue) ==
  CASE orbStateValue = "active" -> 0
    [] orbStateValue = "sleeping" -> 65
    [] orbStateValue = "not-started" -> 100
    [] OTHER -> 0

rockingAngle(orbStateValue) ==
  CASE orbStateValue = "active" -> 20
    [] orbStateValue = "sleeping" -> 20
    [] orbStateValue = "not-started" -> 150
    [] OTHER -> 20

\* amt * (stop - start) + start, the product truncated towards zero
lerp(start, stop, amt) ==
  IF stop >= start
    THEN start + (amt.num * (stop - start)) \div amt.den
    ELSE start - (amt.num * (start - stop)) \div amt.den

clamp(low, high, val) ==
  LET floor == IF val.num > low * val.den THEN val.num ELSE low * val.den
  IN  [num |-> IF floor < high * val.den THEN floor ELSE high * val.den, den |-> val.den]

easeInOutQuad(x) ==
  IF 2 * x.num < x.den
    THEN [num |-> 4 * x.num * x.num, den |-> 2 * x.den * x.den]
    ELSE [num |-> 2 * x.den * x.den - (2 * x.den - 2 * x.num) * (2 * x.den - 2 * x.num),
          den |-> 2 * x.den * x.den]

\* a callback handed to requestAnimationFrame: the one attributeChangedCallback
\* registers (kind "change") or the one a running transition registers
ChangeCallback(newValue) ==
  [kind |-> "change", newValue |-> newValue, generation |-> 0,
   start |-> [time |-> 0, deflation |-> 0, rockingAngle |-> 0],
   end |-> [deflation |-> 0, rockingAngle |-> 0]]

TransitionCallback(generation, start, end) ==
  [kind |-> "transition", newValue |-> "none", generation |-> generation,
   start |-> start, end |-> end]

\* transition(generation, start, end, shape, now): the shape it leaves, and the
\* frame request it makes, if any
transition(generation, start, end, shape, now) ==
  IF shape.generation > generation
    THEN [shape |-> shape, raf |-> <<>>]
    ELSE
      LET deflateTime ==
            IF end.deflation > start.deflation
              THEN DEFLATE_TRANSITION_TIME_MS ELSE INFLATE_TRANSITION_TIME_MS
          deflateProgress ==
            easeInOutQuad(clamp(0, 1, [num |-> now - start.time, den |-> deflateTime]))
          deflation ==
            IF end.deflation # shape.deflation
              THEN IF deflateProgress.num = deflateProgress.den
                     THEN end.deflation
                     ELSE lerp(start.deflation, end.deflation, deflateProgress)
              ELSE shape.deflation
          rockingProgress ==
            easeInOutQuad(clamp(0, 1, [num |-> now - start.time,
                                       den |-> ROCKING_TRANSITION_TIME_MS]))
          rocking ==
            IF end.rockingAngle # shape.rockingAngle
              THEN IF rockingProgress.num = rockingProgress.den
                     THEN end.rockingAngle
                     ELSE lerp(start.rockingAngle, end.rockingAngle, rockingProgress)
              ELSE shape.rockingAngle
          after == [shape EXCEPT !.deflation = deflation, !.rockingAngle = rocking]
      IN  [shape |-> after,
           raf |-> IF after.deflation # end.deflation \/ after.rockingAngle # end.rockingAngle
                     THEN <<TransitionCallback(generation, start, end)>>
                     ELSE <<>>]

\* the callbacks of one animation frame, run in the order they were requested
RECURSIVE runCallbacks(_, _, _)
runCallbacks(shape, callbacks, time) ==
  IF callbacks = <<>>
    THEN [shape |-> shape, raf |-> <<>>]
    ELSE
      LET callback == Head(callbacks)
          start == [time |-> time, deflation |-> shape.deflation,
                    rockingAngle |-> shape.rockingAngle]
          end == [deflation |-> deflationDepth(callback.newValue),
                  rockingAngle |-> rockingAngle(callback.newValue)]
          ran == IF callback.kind = "change"
                   THEN transition(shape.generation, start, end, shape, start.time)
                   ELSE transition(callback.generation, callback.start, callback.end,
                                   shape, time)
          rest == runCallbacks(ran.shape, Tail(callbacks), time)
      IN  [shape |-> rest.shape, raf |-> ran.raf \o rest.raf]

\* the hoop as its constructor leaves it, no orb-state set yet
NoHoop ==
  [orbState |-> "absent",
   shape |-> [generation |-> 0, deflation |-> deflationDepth("not-started"),
              rockingAngle |-> rockingAngle("not-started")],
   raf |-> <<>>, frames |-> 0, changes |-> 0, sameFrame |-> FALSE]

\* no pure function under study
NoPure == [ra |-> NoResult, rb |-> NoResult, out |-> NoResult, done |-> FALSE]

\* Results of either kind: payloads, and the failures connect can meet
Results ==
  {Ok(v) : v \in {"nodes", "socket", "configString", "other"}}
    \cup {Err(e) : e \in {FAILED_TO_CONNECT_USER_MEDIA, SOCKET_CLOSE,
                          CONNECTION_TIMEOUT, FAILED_SETUP}}

getConfigString(agentConfigString) ==
  IF agentConfigString = "json" THEN Ok("configString") ELSE Err(FAILED_SETUP)

\* ------------------------------------------------------------------ sockets
NoSocket == [rs |-> "none", res |-> "none", timer |-> 0, wired |-> FALSE, fwd |-> FALSE]
\* openWebSocket without its setTimeout
NewSocketNoTimeout ==
  [rs |-> "connecting", res |-> "none", timer |-> 0, wired |-> FALSE, fwd |-> FALSE]

NewSocket ==
  [rs |-> "connecting", res |-> "none", timer |-> ConnectionTimeoutMs, wired |-> FALSE,
   fwd |-> FALSE]

\* what each of openWebSocket's three callbacks hands to resolve()
openWebSocketTimeoutAsClose(s, how) ==
  IF how = "ok" THEN Ok(s) ELSE Err(SOCKET_CLOSE)

openWebSocket(s, how) ==
  CASE how = "ok" -> Ok(s)
    [] how = "closed" -> Err(SOCKET_CLOSE)
    [] how = "timeout" -> Err(CONNECTION_TIMEOUT)

\* resolve() of openWebSocket's promise: only the first call settles it
resolveLastWins(res, outcome) == outcome

resolve(res, outcome) == IF res = "none" THEN outcome ELSE res

\* a readyState test that also accepts a socket that is closing or closed
IsOpenOrWasOpen(s) == s # 0 /\ sockets[s].rs # "connecting"

\* socket?.readyState === WebSocket.OPEN
IsOpen(s) == s # 0 /\ sockets[s].rs = "open"

\* --------------------------------------------------------------- idle timer
\* debounce(): calling the function (re)arms it, clear() cancels a pending firing
Armed(t) == [t EXCEPT !.pending = TRUE]
Cleared(t) == [t EXCEPT !.pending = FALSE]

\* a slot of disc: no disconnect() in it
FreeDisc == [pc |-> "free", wait |-> 0, reason |-> "", then |-> "none", live |-> FALSE]

\* ------------------------------------------------------------------ playback
\* playAudio: the start of the next segment
playStartAtClock(start, now) == now

playStart(start, now) == IF start < now THEN now ELSE start

\* stopTts, without the cursor reset
stopTtsKeepCursor ==
  /\ scheduledPlaybackSources' = {}
  /\ stopped' = stopped + Cardinality(scheduledPlaybackSources)
  /\ startTime' = startTime

stopTts ==
  /\ scheduledPlaybackSources' = {}
  /\ stopped' = stopped + Cardinality(scheduledPlaybackSources)
  /\ startTime' = Unset

\* checkAndHandleTtsPlaybackCompleted, without its test
checkAndHandleTtsPlaybackAlways(sources, sender, t) == Armed(t)

\* checkAndHandleTtsPlaybackCompleted, as the timer it leaves
checkAndHandleTtsPlaybackCompleted(sources, sender, t) ==
  IF sources = {} /\ sender = NoSender THEN Armed(t) ELSE t

\* clearActiveSenderIf, without its test
clearActiveSenderAlways(current, sender) == NoSender

clearActiveSenderIf(current, sender) == IF current = sender THEN NoSender ELSE current

\* A task of the event loop: none runs between connect() and its deferred body
Task == cpc # "deferred"

\* playAudio, without the test for an empty buffer
playAudioAnyLength(len) ==
  IF ctxState = "none"
    THEN /\ dispatched' = <<>>
         /\ UNCHANGED playVars
    ELSE LET start == playStart(startTime, currentTime) IN
         /\ Cardinality(scheduledPlaybackSources) + stopped < MaxSources
         /\ scheduledPlaybackSources' =
              scheduledPlaybackSources \cup {[start |-> start, end |-> start + len]}
         /\ startTime' = start + len
         /\ stopped' = stopped
         /\ dispatched' = <<>>

playAudio(len) ==
  IF ctxState = "none"
    THEN /\ dispatched' = <<>>
         /\ UNCHANGED playVars
    ELSE IF len = 0
      THEN /\ dispatched' = <<Event(EMPTY_AUDIO, "")>>
           /\ UNCHANGED playVars
      ELSE LET start == playStart(startTime, currentTime) IN
           /\ Cardinality(scheduledPlaybackSources) + stopped < MaxSources
           /\ scheduledPlaybackSources' =
                scheduledPlaybackSources \cup {[start |-> start, end |-> start + len]}
           /\ startTime' = start + len
           /\ stopped' = stopped
           /\ dispatched' = <<>>

\* handleSocketMessage's try block raises: JSON.parse rejects the text, or the
\* parsed value is null and data.type cannot be read
Caught(m) == m \in {Malformed, NullJson}

\* dispatch(variant, detail): a falsy detail is left out of the CustomEvent
dispatch(variant, detail) ==
  IF detail = FalsyJson THEN Event(variant, "") ELSE Event(variant, detail)

\* the events handleSocketMessage dispatches for the text frame m
handleSocketMessageTwice(m) ==
  IF Caught(m)
    THEN <<Event(UNKNOWN_MESSAGE, ""), Event(UNKNOWN_MESSAGE, "")>>
    ELSE <<dispatch(STRUCTURED_MESSAGE, m)>>

handleSocketMessageEvents(m) ==
  IF Caught(m)
    THEN <<Event(UNKNOWN_MESSAGE, "")>>
    ELSE <<dispatch(STRUCTURED_MESSAGE, m)>>

\* handleSocketMessage, binary frame
HandleAudio(s, len) ==
  /\ Task
  /\ sockets[s].wired /\ sockets[s].rs = "open"
  /\ playAudio(len)
  /\ threw' = FALSE
  /\ frame' = BinaryFrame(len)
  /\ sent' = <<>>
  /\ UNCHANGED <<pure, hoop>>
  /\ UNCHANGED <<ambientVars, connVars, ctxState, currentTime, socket, sockets, nSockets,
                 microphone, nodesWired, activeSender, startIdleTimeout, orbState,
                 attached, disc>>

\* handleSocketMessage, text frame
HandleText(s, m) ==
  /\ Task
  /\ sockets[s].wired /\ sockets[s].rs = "open"
  /\ CASE m = UserStartedSpeaking ->
            /\ activeSender' = User
            /\ stopTts
            /\ startIdleTimeout' = Cleared(startIdleTimeout)
       [] m = EndOfThought ->
            /\ activeSender' = clearActiveSenderIf(activeSender, User)
            /\ UNCHANGED <<playVars, startIdleTimeout>>
       [] m = AgentStartedSpeaking ->
            /\ activeSender' = Agent
            /\ UNCHANGED <<playVars, startIdleTimeout>>
       [] m = AgentAudioDone ->
            /\ activeSender' = clearActiveSenderIf(activeSender, Agent)
            /\ startIdleTimeout' =
                 checkAndHandleTtsPlaybackCompleted(
                   scheduledPlaybackSources, activeSender', startIdleTimeout)
            /\ UNCHANGED playVars
       [] OTHER ->
            UNCHANGED <<activeSender, playVars, startIdleTimeout>>
  /\ dispatched' = handleSocketMessageEvents(m)
  /\ threw' = FALSE
  /\ frame' = TextFrame(m)
  /\ sent' = <<>>
  /\ UNCHANGED <<pure, hoop>>
  /\ UNCHANGED <<ambientVars, connVars, ctxState, currentTime, socket, sockets, nSockets,
                 microphone, nodesWired, orbState, attached, disc>>

\* "ended" of a source that played to its end
EndedNatural(src) ==
  /\ Task
  /\ src \in scheduledPlaybackSources
  /\ ctxState = "running" /\ src.end <= currentTime
  /\ scheduledPlaybackSources' = scheduledPlaybackSources \ {src}
  /\ startIdleTimeout' =
       checkAndHandleTtsPlaybackCompleted(
         scheduledPlaybackSources', activeSender, startIdleTimeout)
  /\ dispatched' = <<>>
  /\ threw' = FALSE
  /\ frame' = NoFrame
  /\ sent' = <<>>
  /\ UNCHANGED <<pure, hoop>>
  /\ UNCHANGED <<ambientVars, connVars, ctxState, currentTime, socket, sockets, nSockets,
                 microphone, nodesWired, stopped, startTime, activeSender, orbState,
                 attached, disc>>

\* "ended" of a source that stopTts stopped: it left the set already
EndedStopped ==
  /\ Task
  /\ stopped > 0
  /\ stopped' = stopped - 1
  /\ startIdleTimeout' =
       checkAndHandleTtsPlaybackCompleted(
         scheduledPlaybackSources, activeSender, startIdleTimeout)
  /\ dispatched' = <<>>
  /\ threw' = FALSE
  /\ frame' = NoFrame
  /\ sent' = <<>>
  /\ UNCHANGED <<pure, hoop>>
  /\ UNCHANGED <<ambientVars, connVars, ctxState, currentTime, socket, sockets, nSockets,
                 microphone, nodesWired, scheduledPlaybackSources, startTime,
                 activeSender, orbState, attached, disc>>

\* the playback clock advances while the context runs
Tick(dt) ==
  /\ Task
  /\ ctxState = "running"
  /\ currentTime + dt <= MaxTime
  /\ currentTime' = currentTime + dt
  /\ dispatched' = <<>>
  /\ threw' = FALSE
  /\ frame' = NoFrame
  /\ sent' = <<>>
  /\ UNCHANGED <<pure, hoop>>
  /\ UNCHANGED <<ambientVars, connVars, playVars, ctxState, socket, sockets, nSockets,
                 microphone, nodesWired, activeSender, startIdleTimeout, orbState,
                 attached, disc>>

\* ------------------------------------------------------------------- connect
\* connect's precondition checks: the event of the first one that fails
preconditionConfigFirst(key, address, cfg, ctx) ==
  IF cfg = "absent" THEN NO_CONFIG
  ELSE IF ~key THEN NO_KEY
  ELSE IF address = "absent" THEN NO_URL
  ELSE IF ctx = "none" THEN FAILED_SETUP
  ELSE "none"

precondition(key, address, cfg, ctx) ==
  IF ~key THEN NO_KEY
  ELSE IF address = "absent" THEN NO_URL
  ELSE IF cfg = "absent" THEN NO_CONFIG
  ELSE IF ctx = "none" THEN FAILED_SETUP
  ELSE "none"

\* sendClientMessage: "binary", "json" (a JSON text) or "text" (any other string)
\* or "configString" (the JSON text of the config attribute)
sendClientMessageEvents(open, message) ==
  IF open /\ message \in {"json", "configString"}
    THEN <<Event(CLIENT_MESSAGE, message)>>
    ELSE <<>>

sendClientMessageThrows(open, message) == open /\ message = "text"

sendClientMessageSends(open, message) == IF open THEN <<message>> ELSE <<>>

\* what a listener of `socket open` registered by the page does while the
\* event is dispatched: nothing ("none"), or a call of sendClientMessage
SocketOpenListeners == {"none", "json"}

\* a connect() is under way, or a restart() that has yet to call it: the model
\* follows one attempt at a time
Attempting == cpc # "idle" \/ \E d \in DiscIds : disc[d].then = "connect"

\* connect's locals before lines 392 and 397 have run
NoInputs == [apiKey |-> FALSE, url |-> "absent"]

\* the values connect would use had it read them when it was called
deferredReadAtCall(called, now) == called

\* await Promise.resolve(): the values connect reads are those of the moment
\* its body resumes
deferredRead(called, now) == now

\* connect(), up to its first await: a new attempt
connect ==
  /\ cpc' = "deferred"
  /\ r1' = NoResult
  /\ configAttr' = "none"
  /\ inputs' = NoInputs
  /\ atCall' = [apiKey |-> apiKey, url |-> url]
  /\ connSock' = 0
  /\ connEvents' = <<>>
  /\ midConnect' = FALSE

\* connect() called by the page
Connect ==
  /\ ~Attempting
  /\ connect
  /\ dispatched' = <<>>
  /\ threw' = FALSE
  /\ frame' = NoFrame
  /\ sent' = <<>>
  /\ UNCHANGED <<pure, hoop>>
  /\ UNCHANGED <<ambientVars, playVars, ctxState, currentTime, socket, sockets, nSockets,
                 microphone, nodesWired, activeSender, startIdleTimeout, orbState,
                 attached, disc>>

\* connect(), from the deferral to the await of resumeContext
ConnectStart ==
  /\ cpc = "deferred"
  /\ LET read == deferredRead(atCall, [apiKey |-> apiKey, url |-> url])
         failure == precondition(read.apiKey, read.url, config, ctxState)
     IN
     IF failure # "none"
       THEN /\ dispatched' = <<Event(failure, "")>>
            /\ connEvents' = <<failure>>
            /\ cpc' = "idle"
            /\ configAttr' = configAttr
            /\ inputs' = inputs
       ELSE /\ dispatched' = <<>>
            /\ connEvents' = connEvents
            /\ cpc' = "resume"
            /\ configAttr' = config
            /\ inputs' = read
  /\ atCall' = atCall
  /\ threw' = FALSE
  /\ frame' = NoFrame
  /\ sent' = <<>>
  /\ UNCHANGED <<pure, hoop>>
  /\ UNCHANGED <<ambientVars, playVars, ctxState, currentTime, socket, sockets, nSockets,
                 microphone, nodesWired, activeSender, startIdleTimeout, orbState,
                 attached, disc, r1, connSock, midConnect>>

\* resumeContext settles; connect calls getNodes
ResumeDone ==
  /\ cpc = "resume"
  /\ IF ctxState = "closed"
       THEN \* resume() of a closed AudioContext rejects, and connect with it
            /\ threw' = TRUE
            /\ cpc' = "idle"
            /\ ctxState' = ctxState
       ELSE /\ threw' = FALSE
            /\ cpc' = "getNodes"
            /\ ctxState' = "running"
  /\ dispatched' = <<>>
  /\ frame' = NoFrame
  /\ sent' = <<>>
  /\ UNCHANGED <<pure, hoop>>
  /\ UNCHANGED <<ambientVars, playVars, currentTime, socket, sockets, nSockets,
                 microphone, nodesWired, activeSender, startIdleTimeout, orbState,
                 attached, disc, r1, configAttr, inputs, atCall, connSock, connEvents, midConnect>>

\* The continuation of connect once both results are known: the match on
\* pairResults(...).andThen(getConfigString). socks is sockets as the settling
\* event left it.
ConnectSettle(socks, nodes, r2) ==
  LET combined ==
        LET pair == pairResults(nodes, r2)
            cs == getConfigString(configAttr)
        IN IF ~pair.isOk THEN pair
           ELSE IF ~cs.isOk THEN cs
           ELSE Ok(<<pair.val[1], pair.val[2], cs.val>>)
  IN
  IF combined.isOk
    THEN \E listener \in SocketOpenListeners :
         LET s == combined.val[2]
             open == socks[s].rs = "open"
             configString == combined.val[3]
         IN
         /\ sockets' = [socks EXCEPT ![s].wired = TRUE, ![s].fwd = TRUE]
         /\ socket' = s
         /\ dispatched' = <<Event(SOCKET_OPEN, "")>>
                            \o (IF listener = "none" THEN <<>>
                                ELSE sendClientMessageEvents(open, listener))
                            \o sendClientMessageEvents(open, configString)
         /\ sent' = (IF listener = "none" THEN <<>>
                     ELSE sendClientMessageSends(open, listener))
                      \o sendClientMessageSends(open, configString)
         /\ connEvents' = connEvents \o <<SOCKET_OPEN>>
         /\ startIdleTimeout' = Armed(startIdleTimeout)
         /\ orbState' = Active
         /\ cpc' = "idle"
         /\ UNCHANGED <<playVars, disc>>
    ELSE /\ sockets' = socks
         /\ stopTts
         /\ disc' = [disc EXCEPT ![0] =
                       [pc |-> "suspend", wait |-> 0, reason |-> "", then |-> combined.val,
                        live |-> IsOpen(socket)]]
         /\ cpc' = "failing"
         /\ dispatched' = <<>>
         /\ sent' = <<>>
         /\ UNCHANGED <<socket, connEvents, startIdleTimeout, orbState>>

\* getUserMedia settles; connectNodes on success; then openWebSocket is called
MicSettled(granted) ==
  /\ Task
  /\ cpc = "getNodes"
  /\ LET nodes == IF granted THEN Ok("nodes") ELSE Err(FAILED_TO_CONNECT_USER_MEDIA) IN
     /\ r1' = nodes
     /\ microphone' = IF granted THEN TRUE ELSE microphone
     /\ nodesWired' = IF granted THEN TRUE ELSE nodesWired
     /\ IF inputs.url = "invalid"
          THEN \* new WebSocket throws
               /\ ConnectSettle(sockets, nodes, Err(FAILED_SETUP))
               /\ UNCHANGED <<nSockets, connSock>>
          ELSE /\ nSockets' = nSockets + 1
               /\ connSock' = nSockets + 1
               /\ sockets' = [sockets EXCEPT ![nSockets + 1] = NewSocket]
               /\ cpc' = "opening"
               /\ dispatched' = <<>>
               /\ sent' = <<>>
               /\ UNCHANGED <<playVars, socket, connEvents, startIdleTimeout, orbState,
                              disc>>
  /\ threw' = FALSE
  /\ frame' = NoFrame
  /\ UNCHANGED <<pure, hoop>>
  /\ UNCHANGED <<ambientVars, ctxState, currentTime, activeSender, attached, configAttr, inputs, atCall,
                 midConnect>>

\* "open" of socket s
SocketOpen(s) ==
  /\ Task
  /\ sockets[s].rs = "connecting"
  /\ LET opened == [sockets EXCEPT ![s].rs = "open", ![s].res = resolve(@, "ok")] IN
     IF sockets[s].res = "none"
       THEN ConnectSettle(opened, r1, openWebSocket(s, "ok"))
       ELSE /\ sockets' = opened
            /\ dispatched' = <<>>
            /\ sent' = <<>>
            /\ UNCHANGED <<playVars, socket, connEvents, startIdleTimeout, orbState,
                           disc, cpc>>
  /\ threw' = FALSE
  /\ frame' = NoFrame
  /\ UNCHANGED <<pure, hoop>>
  /\ UNCHANGED <<ambientVars, ctxState, currentTime, nSockets, microphone, nodesWired,
                 activeSender, attached, r1, configAttr, inputs, atCall, connSock, midConnect>>

\* the 10 s timer of openWebSocket fires
Timeout(s) ==
  /\ Task
  /\ sockets[s].timer > 0
  /\ LET fired == [sockets EXCEPT ![s].timer = 0, ![s].res = resolve(@, "timeout")] IN
     IF sockets[s].res = "none"
       THEN ConnectSettle(fired, r1, openWebSocket(s, "timeout"))
       ELSE /\ sockets' = fired
            /\ dispatched' = <<>>
            /\ sent' = <<>>
            /\ UNCHANGED <<playVars, socket, connEvents, startIdleTimeout, orbState,
                           disc, cpc>>
  /\ threw' = FALSE
  /\ frame' = NoFrame
  /\ UNCHANGED <<pure, hoop>>
  /\ UNCHANGED <<ambientVars, ctxState, currentTime, nSockets, microphone, nodesWired,
                 activeSender, attached, r1, configAttr, inputs, atCall, connSock, midConnect>>


\* ---------------------------------------------------------------- disconnect
FreeSlots == {d \in 1..MaxDisc : disc[d].pc = "free"}
LowestFree == CHOOSE d \in FreeSlots : \A e \in FreeSlots : d <= e

\* the events the finished disconnect() calls of `done` hand to their callers:
\* only connect's Err branch dispatches after its await
ThenEvents(done) ==
  IF 0 \in done THEN <<Event(disc[0].then, "")>> ELSE <<>>

\* disconnect(reason), up to the await of suspendContext; next is what its caller
\* does once it resolves: "none", "connect" in restart(), "close" in
\* disconnectedCallback
disconnect(reason, next) ==
  /\ IF next = "none" THEN FreeSlots # {} ELSE disc[AwaitedSlot].pc = "free"
  /\ stopTts
  /\ disc' = [disc EXCEPT ![IF next = "none" THEN LowestFree ELSE AwaitedSlot] =
                [pc |-> "suspend", wait |-> 0, reason |-> reason, then |-> next,
                 live |-> IsOpen(socket)]]
  /\ midConnect' = (midConnect \/ cpc # "idle")

\* the end of disconnect() once clearSocket has resolved
ReleasedKeepStatus ==
  /\ socket' = 0
  /\ microphone' = FALSE
  /\ orbState' = orbState
  /\ activeSender' = activeSender

ReleasedKeepMicrophone ==
  /\ socket' = 0
  /\ microphone' = microphone
  /\ orbState' = Sleeping
  /\ activeSender' = activeSender

\* a teardown that also forgets who was speaking
ReleasedResetSender ==
  /\ socket' = 0
  /\ microphone' = FALSE
  /\ orbState' = Sleeping
  /\ activeSender' = NoSender

Released ==
  /\ socket' = 0
  /\ microphone' = FALSE
  /\ orbState' = Sleeping
  /\ activeSender' = activeSender

\* the slot of a disconnect() that resolved: disconnectedCallback goes on to
\* closeContext
Settled(d) ==
  IF disc[d].then = "close" THEN [disc[d] EXCEPT !.pc = "closeContext"] ELSE FreeDisc

\* the disconnect() calls of `done` resolve: restart() goes on to connect(), and
\* connect's Err branch to its dispatch
Resolved(done) ==
  IF \E d \in done : disc[d].then = "connect"
    THEN connect
    ELSE /\ cpc' = IF 0 \in done THEN "idle" ELSE cpc
         /\ connEvents' = IF 0 \in done THEN Append(connEvents, disc[0].then) ELSE connEvents
         /\ UNCHANGED <<r1, configAttr, inputs, atCall, connSock, midConnect>>

\* disconnect(reason) called by the page
Disconnect(reason) ==
  /\ disconnect(reason, "none")
  /\ dispatched' = <<>>
  /\ threw' = FALSE
  /\ frame' = NoFrame
  /\ sent' = <<>>
  /\ UNCHANGED <<pure, hoop>>
  /\ UNCHANGED <<ambientVars, cpc, r1, configAttr, inputs, atCall, connSock, connEvents, ctxState, currentTime, socket, sockets, nSockets,
                 microphone, nodesWired, activeSender, startIdleTimeout, orbState,
                 attached>>

\* disconnect() d after suspendContext: disconnectNodes, clearSocket and, when
\* the socket was not open, clearMicrophone and the status change
SuspendDone(d) ==
  /\ Task
  /\ disc[d].pc = "suspend"
  /\ IF ctxState = "closed"
       THEN \* suspend() of a closed AudioContext rejects, and with it disconnect
            \* and the caller awaiting it
            /\ threw' = TRUE
            /\ disc' = [disc EXCEPT ![d] = FreeDisc]
            /\ cpc' = IF d = 0 THEN "idle" ELSE cpc
            /\ dispatched' = <<>>
            /\ UNCHANGED <<ctxState, nodesWired, socket, sockets, microphone, orbState,
                           activeSender,
                           r1, configAttr, inputs, atCall, connSock, connEvents, midConnect>>
       ELSE /\ threw' = FALSE
            /\ ctxState' = IF ctxState = "none" THEN "none" ELSE "suspended"
            /\ nodesWired' = FALSE
            /\ IF IsOpen(socket)
                 THEN /\ sockets' = [sockets EXCEPT ![socket].rs = "closing"]
                      /\ disc' = [disc EXCEPT ![d].pc = "closing", ![d].wait = socket]
                      /\ dispatched' = <<>>
                      /\ UNCHANGED <<socket, microphone, orbState, activeSender, connVars>>
                 ELSE /\ Released
                      /\ disc' = [disc EXCEPT ![d] = Settled(d)]
                      /\ dispatched' = ThenEvents({d})
                      /\ Resolved({d})
                      /\ sockets' = sockets
  /\ frame' = NoFrame
  /\ sent' = <<>>
  /\ UNCHANGED <<pure, hoop>>
  /\ UNCHANGED <<ambientVars, playVars, currentTime, nSockets, startIdleTimeout, attached>>

\* the close listener connect added leaves the audioprocess listener registered
UnforwardedKeepListener(socks, s) == socks

\* processor.removeEventListener("audioprocess", sendMicToSocket)
Unforwarded(socks, s) == [socks EXCEPT ![s].fwd = FALSE]

\* "close" of socket s: its listeners in the order they were added
SocketClose(s) ==
  /\ Task
  /\ sockets[s].rs \in {"connecting", "open", "closing"}
  /\ LET closed == [sockets EXCEPT ![s].rs = "closed", ![s].res = resolve(@, "closed")]
         waiters == {d \in DiscIds : disc[d].pc = "closing" /\ disc[d].wait = s}
     IN
     IF sockets[s].res = "none"
       THEN \* openWebSocket's listener settles the attempt
            /\ ConnectSettle(closed, r1, openWebSocket(s, "closed"))
            /\ UNCHANGED <<microphone, activeSender, r1, configAttr, inputs, atCall, connSock,
                           midConnect>>
       ELSE \* the listener connect added on success
            /\ sockets' = IF sockets[s].wired THEN Unforwarded(closed, s) ELSE closed
            /\ startIdleTimeout' =
                 IF sockets[s].wired THEN Cleared(startIdleTimeout) ELSE startIdleTimeout
            \* the listeners clearSocket added, each followed by the rest of its disconnect()
            /\ IF waiters # {}
                 THEN Released
                 ELSE UNCHANGED <<socket, microphone, orbState, activeSender>>
            /\ disc' = [d \in DiscIds |-> IF d \in waiters THEN Settled(d) ELSE disc[d]]
            /\ dispatched' =
                 (IF sockets[s].wired THEN <<Event(SOCKET_CLOSE, "CloseEvent")>> ELSE <<>>)
                   \o ThenEvents(waiters)
            /\ Resolved(waiters)
            /\ sent' = <<>>
            /\ UNCHANGED playVars
  /\ threw' = FALSE
  /\ frame' = NoFrame
  /\ UNCHANGED <<pure, hoop>>
  /\ UNCHANGED <<ambientVars, ctxState, currentTime, nSockets, nodesWired, attached>>

\* -------------------------------------------------------------- idle timer
\* replaceIdleTimeout(timeoutString), as the timer it leaves
NumberNullIsNaN(timeoutString) ==
  CASE timeoutString = "100" -> 100
    [] timeoutString = "250" -> 250
    [] OTHER -> NaN

Number(timeoutString) ==
  CASE timeoutString = "absent" -> 0       \* Number(null)
    [] timeoutString = "100" -> 100
    [] timeoutString = "250" -> 250
    [] OTHER -> NaN

\* replaceIdleTimeout, without the clear() of the timer it replaces
replaceIdleTimeoutKeepPending(t, timeoutString) ==
  IF Number(timeoutString) = NaN
    THEN t
    ELSE [fn |-> "disconnect", delay |-> Number(timeoutString), pending |-> t.pending]

replaceIdleTimeout(t, timeoutString) ==
  IF Number(timeoutString) = NaN
    THEN t
    ELSE [fn |-> "disconnect", delay |-> Number(timeoutString), pending |-> FALSE]

\* the debounced function fires
IdleFire ==
  /\ Task
  /\ startIdleTimeout.pending
  /\ startIdleTimeout' = Cleared(startIdleTimeout)
  /\ IF startIdleTimeout.fn = "disconnect"
       THEN /\ FreeSlots # {}
            /\ stopTts
            /\ disc' = [disc EXCEPT ![LowestFree] =
                 [pc |-> "suspend", wait |-> 0, reason |-> "idle timeout", then |-> "none",
                  live |-> IsOpen(socket)]]
       ELSE UNCHANGED <<playVars, disc>>
  /\ dispatched' = <<>>
  /\ threw' = FALSE
  /\ frame' = NoFrame
  /\ sent' = <<>>
  /\ UNCHANGED <<pure, hoop>>
  /\ UNCHANGED <<ambientVars, connVars, ctxState, currentTime, socket, sockets, nSockets,
                 microphone, nodesWired, activeSender, orbState, attached>>

\* connectedCallback
ConnectedCallback ==
  /\ ~attached
  /\ attached' = TRUE
  /\ orbState' = NotStarted
  /\ startIdleTimeout' = replaceIdleTimeout(startIdleTimeout, idleTimeoutMs)
  /\ dispatched' = <<>>
  /\ threw' = FALSE
  /\ frame' = NoFrame
  /\ sent' = <<>>
  /\ UNCHANGED <<pure, hoop>>
  /\ UNCHANGED <<ambientVars, connVars, playVars, ctxState, currentTime, socket, sockets,
                 nSockets, microphone, nodesWired, activeSender, disc>>

\* disconnectedCallback, up to the await in disconnect
DisconnectedCallback ==
  /\ attached
  /\ attached' = FALSE
  /\ disconnect("", "close")
  /\ dispatched' = <<>>
  /\ threw' = FALSE
  /\ frame' = NoFrame
  /\ sent' = <<>>
  /\ UNCHANGED <<pure, hoop>>
  /\ UNCHANGED <<ambientVars, cpc, r1, configAttr, inputs, atCall, connSock, connEvents, ctxState,
                 currentTime, socket, sockets, nSockets, microphone, nodesWired,
                 activeSender, startIdleTimeout, orbState>>

\* disconnectedCallback: closeContext settles. close() of a context that is
\* closed already rejects.
CloseDone(d) ==
  /\ Task
  /\ disc[d].pc = "closeContext"
  /\ disc' = [disc EXCEPT ![d] = FreeDisc]
  /\ ctxState' = IF ctxState = "none" THEN "none" ELSE "closed"
  /\ threw' = (ctxState = "closed")
  /\ dispatched' = <<>>
  /\ frame' = NoFrame
  /\ sent' = <<>>
  /\ UNCHANGED <<pure, hoop>>
  /\ UNCHANGED <<ambientVars, connVars, playVars, currentTime, socket, sockets, nSockets,
                 microphone, nodesWired, activeSender, startIdleTimeout, orbState,
                 attached>>

\* restart() called by the page, up to the await in disconnect
Restart ==
  /\ ~Attempting
  /\ disconnect("", "connect")
  /\ dispatched' = <<>>
  /\ threw' = FALSE
  /\ frame' = NoFrame
  /\ sent' = <<>>
  /\ UNCHANGED <<pure, hoop>>
  /\ UNCHANGED <<ambientVars, cpc, r1, configAttr, inputs, atCall, connSock, connEvents, ctxState,
                 currentTime, socket, sockets, nSockets, microphone, nodesWired,
                 activeSender, startIdleTimeout, orbState, attached>>

\* attributeChangedCallback for config, the attribute going to newValue. A
\* change that starts an attempt is followed only while no other one is under way.
AttributeChangedConfig(newValue) ==
  /\ ~(config = "absent" /\ newValue = "absent")
  /\ config' = newValue
  /\ CASE config = "absent" /\ newValue # "absent" ->
            /\ ~Attempting /\ nSockets < MaxSockets
            /\ connect
            /\ UNCHANGED <<playVars, disc>>
       [] config # "absent" /\ newValue = "absent" ->
            /\ disconnect("", "none")
            /\ UNCHANGED <<cpc, r1, configAttr, inputs, atCall, connSock, connEvents>>
       [] config # "absent" /\ newValue # "absent" /\ socket # 0 ->
            /\ ~Attempting /\ nSockets < MaxSockets
            /\ disconnect("", "connect")
            /\ UNCHANGED <<cpc, r1, configAttr, inputs, atCall, connSock, connEvents>>
       [] OTHER ->
            UNCHANGED <<connVars, playVars, disc>>
  /\ dispatched' = <<>>
  /\ threw' = FALSE
  /\ frame' = NoFrame
  /\ sent' = <<>>
  /\ UNCHANGED <<pure, hoop>>
  /\ UNCHANGED <<apiKey, url, idleTimeoutMs, ctxState, currentTime, socket, sockets,
                 nSockets, microphone, nodesWired, activeSender, startIdleTimeout,
                 orbState, attached>>

\* element.apiKey = value, or undefined: a plain field, no callback
SetApiKey(value) ==
  /\ apiKey # value
  /\ apiKey' = value
  /\ dispatched' = <<>>
  /\ threw' = FALSE
  /\ frame' = NoFrame
  /\ sent' = <<>>
  /\ UNCHANGED <<pure, hoop>>
  /\ UNCHANGED <<url, config, idleTimeoutMs, connVars, playVars, ctxState, currentTime,
                 socket, sockets, nSockets, microphone, nodesWired, activeSender,
                 startIdleTimeout, orbState, attached, disc>>

\* setAttribute("url", value) or removeAttribute("url"): not an observed
\* attribute, no callback
SetAttributeUrl(value) ==
  /\ url # value
  /\ url' = value
  /\ dispatched' = <<>>
  /\ threw' = FALSE
  /\ frame' = NoFrame
  /\ sent' = <<>>
  /\ UNCHANGED <<pure, hoop>>
  /\ UNCHANGED <<apiKey, config, idleTimeoutMs, connVars, playVars, ctxState, currentTime,
                 socket, sockets, nSockets, microphone, nodesWired, activeSender,
                 startIdleTimeout, orbState, attached, disc>>

\* attributeChangedCallback for idle-timeout-ms
AttributeChangedIdle(newValue) ==
  /\ ~(idleTimeoutMs = "absent" /\ newValue = "absent")
  /\ idleTimeoutMs' = newValue
  /\ startIdleTimeout' = replaceIdleTimeout(startIdleTimeout, newValue)
  /\ dispatched' = <<>>
  /\ threw' = FALSE
  /\ frame' = NoFrame
  /\ sent' = <<>>
  /\ UNCHANGED <<pure, hoop>>
  /\ UNCHANGED <<apiKey, url, config, connVars, playVars, ctxState, currentTime, socket,
                 sockets, nSockets, microphone, nodesWired, activeSender, orbState,
                 attached, disc>>

\* sendClientMessage(message)
SendClientMessage(message) ==
  /\ dispatched' = sendClientMessageEvents(IsOpen(socket), message)
  /\ threw' = sendClientMessageThrows(IsOpen(socket), message)
  /\ sent' = sendClientMessageSends(IsOpen(socket), message)
  /\ frame' = NoFrame
  /\ UNCHANGED <<pure, hoop>>
  /\ UNCHANGED <<ambientVars, connVars, playVars, ctxState, currentTime, socket, sockets,
                 nSockets, microphone, nodesWired, activeSender, startIdleTimeout,
                 orbState, attached, disc>>

\* ---------------------------------------------------------------------- Init
Init ==
  /\ apiKey \in BOOLEAN
  /\ url \in {"absent", "valid", "invalid"}
  /\ config \in {"absent", "json", "malformed"}
  /\ idleTimeoutMs \in {"100", "abc"}
  /\ ctxState \in {"none", "running"}
  /\ currentTime = 0
  /\ socket = 0
  /\ sockets = [s \in SockIds |-> NoSocket]
  /\ nSockets = 0
  /\ microphone = FALSE
  /\ nodesWired = FALSE
  /\ scheduledPlaybackSources = {}
  /\ stopped = 0
  /\ startTime = Unset
  /\ activeSender = NoSender
  /\ startIdleTimeout = [fn |-> "noop", delay |-> 0, pending |-> FALSE]
  /\ orbState = "unset"
  /\ attached = FALSE
  /\ cpc = "idle"
  /\ r1 = NoResult
  /\ configAttr = "none"
  /\ inputs = NoInputs
  /\ atCall = NoInputs
  /\ connSock = 0
  /\ connEvents = <<>>
  /\ disc = [d \in DiscIds |-> FreeDisc]
  /\ dispatched = IF ctxState = "none" THEN <<Event(FAILED_SETUP, "")>> ELSE <<>>
  /\ threw = FALSE
  /\ frame = NoFrame
  /\ sent = <<>>
  /\ pure = NoPure
  /\ hoop = NoHoop
  /\ midConnect = FALSE

\* pairResults(ra, rb), applied to the arguments drawn by InitPure
PairResults ==
  /\ ~pure.done
  /\ pure' = [pure EXCEPT !.out = pairResults(pure.ra, pure.rb), !.done = TRUE]
  /\ UNCHANGED <<ambientVars, connVars, playVars, ctxState, currentTime, socket, sockets,
                 nSockets, microphone, nodesWired, activeSender, startIdleTimeout,
                 orbState, attached, disc, dispatched, threw, frame, sent, hoop>>

\* deepgram-hoop's attributeChangedCallback for orb-state
HoopAttributeChanged(newValue) ==
  /\ hoop.changes < MaxChanges
  /\ hoop' = [hoop EXCEPT
       !.orbState = newValue,
       !.shape.generation = @ + 1,
       !.raf = Append(@, ChangeCallback(newValue)),
       !.changes = @ + 1,
       !.sameFrame = @ \/ \E i \in 1..Len(hoop.raf) : hoop.raf[i].kind = "change"]
  /\ UNCHANGED <<ambientVars, connVars, playVars, ctxState, currentTime, socket, sockets,
                 nSockets, microphone, nodesWired, activeSender, startIdleTimeout,
                 orbState, attached, disc, dispatched, threw, frame, sent, pure>>

\* one animation frame: every requested callback runs, in request order
AnimationFrame ==
  /\ hoop.frames < MaxFrames
  /\ LET ran == runCallbacks(hoop.shape, hoop.raf, (hoop.frames + 1) * FrameMs)
     IN  hoop' = [hoop EXCEPT !.shape = ran.shape, !.raf = ran.raf, !.frames = @ + 1]
  /\ UNCHANGED <<ambientVars, connVars, playVars, ctxState, currentTime, socket, sockets,
                 nSockets, microphone, nodesWired, activeSender, startIdleTimeout,
                 orbState, attached, disc, dispatched, threw, frame, sent, pure>>

\* ------------------------------------------------------------ specifications
\* Spec: the element under its full environment, one socket per behaviour, the
\* server sending the frames that take part in turn taking.
Next ==
  \/ ConnectedCallback
  \/ (nSockets < MaxSessions /\ Connect)
  \/ ConnectStart
  \/ ResumeDone
  \/ \E granted \in BOOLEAN : MicSettled(granted)
  \/ \E s \in SockIds : SocketOpen(s)
  \/ \E s \in SockIds : SocketClose(s)
  \/ \E s \in SockIds : Timeout(s)
  \/ \E s \in SockIds, len \in FrameLens : HandleAudio(s, len)
  \/ \E s \in SockIds, m \in TurnFrames : HandleText(s, m)
  \/ \E src \in scheduledPlaybackSources : EndedNatural(src)
  \/ EndedStopped
  \/ \E dt \in FrameLens \ {0} : Tick(dt)
  \/ Disconnect("")
  \/ \E d \in DiscIds : SuspendDone(d)
  \/ IdleFire
  \/ \E message \in {"binary", "json", "text"} : SendClientMessage(message)

Spec == Init /\ [][Next]_vars

\* SpecConn: connect attempts one after the other, under a server that sends
\* nothing and a page that never calls disconnect.
NextConn ==
  \/ ConnectedCallback
  \/ (nSockets < MaxSockets /\ Connect)
  \/ ConnectStart
  \/ ResumeDone
  \/ \E granted \in BOOLEAN : MicSettled(granted)
  \/ \E s \in SockIds : SocketOpen(s)
  \/ \E s \in SockIds : SocketClose(s)
  \/ \E s \in SockIds : Timeout(s)
  \/ SuspendDone(0)

SpecConn == Init /\ [][NextConn]_vars

\* SpecConnFair: SpecConn where what is pending settles: audio contexts resume
\* and suspend, the microphone request is answered, timers that are due fire,
\* and a socket asked to close reports its close. The server is free never to
\* answer a socket that is connecting.
SpecConnFair ==
  /\ Init
  /\ [][NextConn]_vars
  /\ WF_vars(ResumeDone)
  /\ WF_vars(\E granted \in BOOLEAN : MicSettled(granted))
  /\ WF_vars(\E s \in SockIds : sockets[s].res = "none" /\ Timeout(s))
  /\ WF_vars(\E d \in DiscIds : SuspendDone(d))
  /\ WF_vars(\E s \in SockIds : sockets[s].rs = "closing" /\ SocketClose(s))

\* SpecPlay: one session that stays up, the server sending frames.
NextPlay ==
  \/ (nSockets < MaxSessions /\ Connect)
  \/ ConnectStart
  \/ ResumeDone
  \/ MicSettled(TRUE)
  \/ \E s \in SockIds : SocketOpen(s)
  \/ \E s \in SockIds, len \in FrameLens : HandleAudio(s, len)
  \/ \E s \in SockIds, m \in TextFrames : HandleText(s, m)
  \/ \E src \in scheduledPlaybackSources : EndedNatural(src)
  \/ EndedStopped
  \/ \E dt \in FrameLens \ {0} : Tick(dt)

SpecPlay == Init /\ [][NextPlay]_vars

\* SpecAttr: the page drives the element through its attributes only, and the
\* microphone is granted.
NextAttr ==
  \/ ConnectedCallback
  \/ \E newValue \in {"absent", "json", "malformed"} : AttributeChangedConfig(newValue)
  \/ \E newValue \in {"absent", "100", "250", "abc"} : AttributeChangedIdle(newValue)
  \/ ConnectStart
  \/ ResumeDone
  \/ MicSettled(TRUE)
  \/ \E s \in SockIds : SocketOpen(s)
  \/ \E s \in SockIds : SocketClose(s)
  \/ \E d \in DiscIds : SuspendDone(d)
  \/ IdleFire

SpecAttr == Init /\ [][NextAttr]_vars

\* SpecIdle: one session with the idle timer running. Timers that are due fire,
\* a context that was asked to suspend does, and a socket that was asked to close
\* acknowledges it.
NextIdle ==
  \/ ConnectedCallback
  \/ (nSockets < MaxSessions /\ Connect)
  \/ ConnectStart
  \/ ResumeDone
  \/ MicSettled(TRUE)
  \/ \E s \in SockIds : SocketOpen(s)
  \/ \E s \in SockIds : SocketClose(s)
  \/ \E s \in SockIds, len \in FrameLens : HandleAudio(s, len)
  \/ \E s \in SockIds, m \in TurnFrames : HandleText(s, m)
  \/ \E src \in scheduledPlaybackSources : EndedNatural(src)
  \/ EndedStopped
  \/ \E dt \in FrameLens \ {0} : Tick(dt)
  \/ \E d \in DiscIds : SuspendDone(d)
  \/ IdleFire

SpecIdle ==
  /\ Init
  /\ [][NextIdle]_vars
  /\ WF_vars(IdleFire)
  /\ WF_vars(\E d \in DiscIds : SuspendDone(d))
  /\ WF_vars(\E s \in SockIds : sockets[s].rs = "closing" /\ SocketClose(s))

\* SpecLife: sessions one after the other over the element's lifetime, the page
\* attaching and detaching it and calling connect, disconnect and restart, the
\* microphone granted and the server announcing the agent's turns.
NextLife ==
  \/ ConnectedCallback
  \/ DisconnectedCallback
  \/ \E d \in DiscIds : CloseDone(d)
  \/ (nSockets < MaxSockets /\ Connect)
  \/ (nSockets < MaxSockets /\ Restart)
  \/ ConnectStart
  \/ ResumeDone
  \/ MicSettled(TRUE)
  \/ \E s \in SockIds : SocketOpen(s)
  \/ \E s \in SockIds : SocketClose(s)
  \/ \E s \in SockIds, m \in {AgentStartedSpeaking, AgentAudioDone} : HandleText(s, m)
  \/ Disconnect("")
  \/ \E d \in DiscIds : SuspendDone(d)
  \/ IdleFire

SpecLife == Init /\ [][NextLife]_vars

\* the inputs of connect changing around its call
NextDefer ==
  \/ ConnectedCallback
  \/ (nSockets < MaxSockets /\ Connect)
  \/ \E value \in BOOLEAN : SetApiKey(value)
  \/ \E value \in {"absent", "valid", "invalid"} : SetAttributeUrl(value)
  \/ ConnectStart
  \/ ResumeDone
  \/ MicSettled(TRUE)
  \/ \E s \in SockIds : SocketOpen(s)
  \/ \E d \in DiscIds : SuspendDone(d)

SpecDefer == Init /\ [][NextDefer]_vars

\* SpecPure: the pure helpers of the module, each applied once to arguments drawn
\* from every combination of a success or a failure.
InitPure ==
  /\ apiKey = TRUE
  /\ url = "valid"
  /\ config = "json"
  /\ idleTimeoutMs = "abc"
  /\ ctxState = "running"
  /\ currentTime = 0
  /\ socket = 0
  /\ sockets = [s \in SockIds |-> NoSocket]
  /\ nSockets = 0
  /\ microphone = FALSE
  /\ nodesWired = FALSE
  /\ scheduledPlaybackSources = {}
  /\ stopped = 0
  /\ startTime = Unset
  /\ activeSender = NoSender
  /\ startIdleTimeout = [fn |-> "noop", delay |-> 0, pending |-> FALSE]
  /\ orbState = "unset"
  /\ attached = FALSE
  /\ cpc = "idle"
  /\ r1 = NoResult
  /\ configAttr = "none"
  /\ inputs = NoInputs
  /\ atCall = NoInputs
  /\ connSock = 0
  /\ connEvents = <<>>
  /\ disc = [d \in DiscIds |-> FreeDisc]
  /\ dispatched = <<>>
  /\ threw = FALSE
  /\ frame = NoFrame
  /\ sent = <<>>
  /\ \E ra \in Results, rb \in Results :
       pure = [ra |-> ra, rb |-> rb, out |-> NoResult, done |-> FALSE]
  /\ hoop = NoHoop
  /\ midConnect = FALSE

NextPure == PairResults

SpecPure == InitPure /\ [][NextPure]_vars

\* SpecHoop: the deepgram-hoop element alone, the page setting its orb-state
\* and the browser running animation frames.
InitHoop ==
  /\ apiKey = TRUE
  /\ url = "valid"
  /\ config = "json"
  /\ idleTimeoutMs = "abc"
  /\ ctxState = "running"
  /\ currentTime = 0
  /\ socket = 0
  /\ sockets = [s \in SockIds |-> NoSocket]
  /\ nSockets = 0
  /\ microphone = FALSE
  /\ nodesWired = FALSE
  /\ scheduledPlaybackSources = {}
  /\ stopped = 0
  /\ startTime = Unset
  /\ activeSender = NoSender
  /\ startIdleTimeout = [fn |-> "noop", delay |-> 0, pending |-> FALSE]
  /\ orbState = "unset"
  /\ attached = FALSE
  /\ cpc = "idle"
  /\ r1 = NoResult
  /\ configAttr = "none"
  /\ inputs = NoInputs
  /\ atCall = NoInputs
  /\ connSock = 0
  /\ connEvents = <<>>
  /\ disc = [d \in DiscIds |-> FreeDisc]
  /\ dispatched = <<>>
  /\ threw = FALSE
  /\ frame = NoFrame
  /\ sent = <<>>
  /\ pure = NoPure
  /\ hoop = NoHoop
  /\ midConnect = FALSE

NextHoop ==
  \/ \E newValue \in VoiceBotStatus : HoopAttributeChanged(newValue)
  \/ AnimationFrame

SpecHoop == InitHoop /\ [][NextHoop]_vars

\* ==================================================================== claims
AllSettled == cpc = "idle" /\ \A d \in DiscIds : disc[d].pc = "free"

\* C1: when a disconnect() that was called on a live session resolves, this.socket
\* and this.microphone are null, no source is scheduled and no firing of the idle
\* timer is pending, whatever arrived before or during the disconnect.
C1_DisconnectLeavesNothing ==
  [][\A d \in DiscIds \ {0} :
       (disc[d].pc # "free" /\ disc[d].live /\ disc'[d].pc = "free")
         => /\ socket' = 0
            /\ ~microphone'
            /\ scheduledPlaybackSources' = {}
            /\ ~startIdleTimeout'.pending]_vars

\* C2: an attempt whose microphone request was denied ends with the event
\* `failed to connect user media`, the status not live, and the socket it created
\* neither open nor still able to open.
C2_MediaDeniedLeavesNoSocket ==
  (cpc = "idle" /\ connEvents = <<FAILED_TO_CONNECT_USER_MEDIA>>)
    => /\ orbState # Active
       /\ connSock # 0 => sockets[connSock].rs \notin {"connecting", "open"}

\* C3: the idle timer starts its disconnect only in states where no source is
\* scheduled and no sender is active.
C3_IdleFiresOnlyWhenQuiet ==
  [][\A d \in DiscIds :
       (disc[d].pc = "free" /\ disc'[d].pc = "suspend" /\ disc'[d].reason = "idle timeout")
         => (scheduledPlaybackSources = {} /\ activeSender = NoSender)]_vars

\* C4: after a disconnect() called while a connect attempt was in flight, once
\* that disconnect and the attempt have both settled the session is torn down:
\* this.socket and this.microphone are null and the status is not live.
C4_DisconnectDuringConnect ==
  (midConnect /\ AllSettled)
    => (socket = 0 /\ ~microphone /\ orbState # Active)

\* C5: no step of a public entry point raises out of it.
C5_NothingThrown == ~threw

\* C6: the step that handles UserStartedSpeaking leaves no source scheduled, the
\* cursor unset, the sender User and no firing of the idle timer pending.
C6_BargeIn ==
  dispatched = <<Event(STRUCTURED_MESSAGE, UserStartedSpeaking)>>
    => /\ scheduledPlaybackSources = {}
       /\ startTime = Unset
       /\ activeSender = User
       /\ ~startIdleTimeout.pending

C6_Witness ==
  /\ dispatched = <<Event(STRUCTURED_MESSAGE, UserStartedSpeaking)>>
  /\ stopped = 2
  /\ activeSender = User

\* C7: scheduled segments never overlap, and each new segment starts at the later
\* of the clock and the end of the segments still scheduled: a frame that arrives
\* before the previous segment ended starts exactly at that segment's end.
C7_LatestEnd(now, sources) ==
  CHOOSE t \in {now} \cup {o.end : o \in sources} :
    \A u \in {now} \cup {o.end : o \in sources} : u <= t

C7_BackToBack ==
  /\ [](\A a, b \in scheduledPlaybackSources :
          a # b => (a.end <= b.start \/ b.end <= a.start))
  /\ [][\A src \in scheduledPlaybackSources' \ scheduledPlaybackSources :
          src.start = C7_LatestEnd(currentTime, scheduledPlaybackSources)]_vars

C7_Witness ==
  \E a, b \in scheduledPlaybackSources :
    /\ a.end - a.start = 10
    /\ b.end - b.start = 20
    /\ b.start = a.end
    /\ currentTime < a.end

\* C8: openWebSocket's promise is settled by the first of "open", "close" and the
\* timeout, and the later ones leave the result as it is.
C8_Created == 1..nSockets

C8_FirstWins ==
  /\ [](\A s \in C8_Created :
          /\ sockets[s].res = "none" <=> (sockets[s].rs = "connecting" /\ sockets[s].timer > 0)
          /\ sockets[s].res = "ok" => sockets[s].rs \in {"open", "closing", "closed"}
          /\ sockets[s].res = "closed" => sockets[s].rs = "closed"
          /\ sockets[s].res = "timeout" => sockets[s].timer = 0)
  /\ [][\A s \in C8_Created :
          /\ sockets[s].res # "none" => sockets'[s].res = sockets[s].res
          /\ (sockets[s].res = "none" /\ sockets'[s].rs = "open") => sockets'[s].res = "ok"
          /\ (sockets[s].res = "none" /\ sockets'[s].rs = "closed")
               => sockets'[s].res = "closed"
          /\ (sockets[s].res = "none" /\ sockets'[s].timer = 0)
               => sockets'[s].res = "timeout"]_vars

C8_Witness ==
  \E s \in C8_Created :
    sockets[s].res = "ok" /\ sockets[s].rs = "closed" /\ sockets[s].timer = 0

\* C9 as stated: an attempt whose socket neither opened nor closed before the
\* timeout ends with the event `connection timeout`, never live.
C9_TimedOut == cpc = "idle" /\ connSock # 0 /\ sockets[connSock].res = "timeout"

C9_Original ==
  C9_TimedOut
    => (connEvents = <<CONNECTION_TIMEOUT>> /\ orbState # Active /\ socket # connSock)

\* C9, amended: an attempt whose microphone request was granted and whose socket
\* neither opened nor closed before the timeout ends with the single event
\* `connection timeout`, the session not live and the status not live.
C9_TimeoutReported ==
  (C9_TimedOut /\ r1.isOk)
    => (connEvents = <<CONNECTION_TIMEOUT>> /\ orbState # Active /\ socket # connSock)

C9_Witness ==
  /\ C9_TimedOut
  /\ r1.isOk
  /\ connEvents = <<CONNECTION_TIMEOUT>>
  /\ orbState = Sleeping

\* C10: connect checks key, url and config in that order and stops at the first
\* one missing: that step dispatches the one event of it, creates no socket,
\* requests no microphone and leaves handles and status as they were.
C10_FirstMissing ==
  IF ~apiKey THEN NO_KEY
  ELSE IF url = "absent" THEN NO_URL
  ELSE IF config = "absent" THEN NO_CONFIG
  ELSE "none"

C10_PreconditionsInOrder ==
  /\ []((connEvents # <<>> /\ Head(connEvents) \in {NO_KEY, NO_URL, NO_CONFIG})
          => (Len(connEvents) = 1 /\ connSock = 0 /\ cpc = "idle"))
  /\ [][(cpc = "deferred" /\ cpc' # "deferred" /\ C10_FirstMissing # "none")
          => /\ dispatched' = <<Event(C10_FirstMissing, "")>>
             /\ connEvents' = <<C10_FirstMissing>>
             /\ cpc' = "idle"
             /\ UNCHANGED <<socket, sockets, nSockets, microphone, nodesWired, orbState,
                            ctxState, startIdleTimeout, disc>>]_vars

C10_Witness ==
  /\ apiKey /\ url = "valid" /\ config = "absent"
  /\ connEvents = <<NO_CONFIG>>
  /\ dispatched = <<Event(NO_CONFIG, "")>>
  /\ nSockets = 0

\* C11: a completion message clears the sender only when it names the sender
\* recorded: EndOfThought clears User and leaves Agent or none as they are,
\* AgentAudioDone clears Agent and leaves User or none as they are.
C11_ClearsOnlyMatching ==
  [][/\ frame' = TextFrame(EndOfThought)
          => activeSender' = (IF activeSender = User THEN NoSender ELSE activeSender)
     /\ frame' = TextFrame(AgentAudioDone)
          => activeSender' = (IF activeSender = Agent THEN NoSender ELSE activeSender)]_vars

C11_Witness ==
  \/ frame = TextFrame(EndOfThought) /\ activeSender = Agent
  \/ frame = TextFrame(AgentAudioDone) /\ activeSender = User

\* C12: pairing two results gives the pair of the payloads when both succeeded,
\* the first one's failure whenever the first failed, also when the second failed
\* too, and the second one's failure when only the second failed.
C12_PairResults ==
  pure.done =>
    IF pure.ra.isOk /\ pure.rb.isOk
      THEN pure.out.isOk /\ pure.out.val = <<pure.ra.val, pure.rb.val>>
      ELSE /\ ~pure.out.isOk
           /\ pure.out.val = (IF ~pure.ra.isOk THEN pure.ra.val ELSE pure.rb.val)

C12_Witness ==
  /\ pure.done
  /\ ~pure.ra.isOk /\ ~pure.rb.isOk
  /\ pure.ra.val # pure.rb.val
  /\ pure.out = pure.ra

\* C13: sendClientMessage puts its payload on the socket only while this.socket
\* is open; every text payload sent is echoed by exactly one `client message`
\* event carrying its parsed form, and a binary payload by no event.
C13_ClientMessages(events) ==
  {i \in DOMAIN events : events[i].variant = CLIENT_MESSAGE}

C13_SendAndEcho ==
  /\ sent # <<>> => IsOpen(socket)
  /\ \A message \in {"json", "text"} :
       sent = <<message>>
         => /\ Cardinality(C13_ClientMessages(dispatched)) = 1
            /\ \A i \in C13_ClientMessages(dispatched) : dispatched[i].detail = message
  /\ sent = <<"binary">> => dispatched = <<>>

\* C14: every text frame that is well-formed JSON, whatever its value and its
\* type, is answered by exactly one `structured message` event carrying the
\* parsed value, and by no `unknown message` event.
C14_StructuredForAllJson ==
  (frame.kind = "text" /\ frame.text # Malformed)
    => dispatched = <<Event(STRUCTURED_MESSAGE, frame.text)>>

\* C15: a text frame that is not JSON is answered by exactly one `unknown
\* message` event and changes nothing else: sender, scheduled sources, cursor,
\* idle timer, socket and status stay as they were.
C15_MalformedIgnored ==
  [][frame' = TextFrame(Malformed)
       => /\ dispatched' = <<Event(UNKNOWN_MESSAGE, "")>>
          /\ UNCHANGED <<activeSender, scheduledPlaybackSources, stopped, startTime,
                         startIdleTimeout, socket, sockets, microphone, orbState,
                         disc>>]_vars

C15_Witness ==
  /\ frame = TextFrame(Malformed)
  /\ activeSender = Agent
  /\ scheduledPlaybackSources # {}
  /\ startIdleTimeout.pending
  /\ IsOpen(socket) /\ orbState = Active

\* C16: a binary frame of zero samples is answered by `empty audio`, schedules
\* nothing, leaves the scheduled sources and the cursor as they were, and starts
\* no teardown.
C16_EmptyAudio ==
  [][frame' = BinaryFrame(0)
       => /\ dispatched' = <<Event(EMPTY_AUDIO, "")>>
          /\ UNCHANGED <<scheduledPlaybackSources, stopped, startTime, socket, sockets,
                         microphone, orbState, disc>>]_vars

C16_Witness ==
  /\ frame = BinaryFrame(0)
  /\ dispatched = <<Event(EMPTY_AUDIO, "")>>
  /\ scheduledPlaybackSources # {}
  /\ IsOpen(socket) /\ orbState = Active

\* C17: a change of the config attribute from absent to present starts a
\* connect, from present to absent a disconnect, and from one present value to
\* another a restart, in every state.
C17_ConfigChangeTriggers ==
  [][config' # config =>
       LET started(next) ==
             \E d \in DiscIds \ {0} :
               disc[d].pc = "free" /\ disc'[d].pc = "suspend" /\ disc'[d].then = next
       IN CASE config = "absent" -> cpc' = "deferred"
            [] config' = "absent" -> started("none")
            [] OTHER -> started("connect")]_vars

\* C18: a new idle-timeout-ms value that is a number replaces the delay and
\* leaves no firing pending; one that is not a number leaves delay and pending
\* firing as they were.
C18_Delay(timeoutString) ==
  CASE timeoutString = "100" -> 100
    [] timeoutString = "250" -> 250
    [] timeoutString = "absent" -> 0

C18_Reconfigure ==
  [][idleTimeoutMs' # idleTimeoutMs =>
       IF idleTimeoutMs' = "abc"
         THEN startIdleTimeout' = startIdleTimeout
         ELSE /\ startIdleTimeout'.delay = C18_Delay(idleTimeoutMs')
              /\ ~startIdleTimeout'.pending]_vars

C18_Witness ==
  /\ IsOpen(socket) /\ orbState = Active
  /\ \A d \in DiscIds : disc[d].pc = "free"
  /\ idleTimeoutMs = "250"
  /\ startIdleTimeout = [fn |-> "disconnect", delay |-> 250, pending |-> FALSE]

\* C19 as stated: the idle timer is started by the step that makes the session
\* live and by every step that handles AgentAudioDone.
C19_BecomesLive == orbState # Active /\ orbState' = Active

C20_Quiet ==
  /\ startIdleTimeout.fn = "disconnect"
  /\ activeSender = NoSender
  /\ scheduledPlaybackSources = {}

C20_Live == IsOpen(socket) /\ orbState = Active

C20_IdleDisconnects ==
  (<>[]C20_Quiet /\ <>[][frame' = NoFrame]_vars) => <>[]~C20_Live

\* C21: a session can be made again after any completed teardown: with every
\* disconnect settled (explicit, idle or detach) and the element attached, a
\* connect() whose inputs are present gets past resuming the audio contexts
\* and goes on to the microphone and the socket, without throwing.
C21_Recreated ==
  [][(/\ cpc = "resume"
      /\ attached
      /\ \A d \in DiscIds : disc[d].pc = "free"
      /\ cpc' # "resume")
       => (~threw' /\ cpc' = "getNodes")]_vars

\* C22: disconnect() is idempotent: a call made on a session that is already
\* torn down (no socket, no microphone, nothing scheduled, status not active,
\* no attempt and no other disconnect running) resolves without throwing, leaves all of that as it
\* was with the status sleeping, and dispatches no event.
C22_Idempotent ==
  [][\A d \in 1..MaxDisc :
       (/\ disc[d].pc = "suspend" /\ disc'[d].pc # "suspend"
        /\ \A e \in DiscIds \ {d} : disc[e].pc = "free"
        /\ cpc = "idle"
        /\ socket = 0 /\ ~microphone /\ scheduledPlaybackSources = {}
        /\ orbState # Active)
         => (/\ ~threw'
             /\ disc'[d].pc = "free"
             /\ socket' = 0 /\ ~microphone' /\ scheduledPlaybackSources' = {}
             /\ orbState' = Sleeping
             /\ dispatched' = <<>>)]_vars

\* C23: restart() is a disconnect followed by a connect: at the step where
\* its disconnect resolves and its connect() is called, the microphone is
\* released, the handle is absent, the status is sleeping, and the close of
\* every socket the session has held has been acknowledged.
C23_ConnectAfterDisconnect ==
  [][(/\ disc[AwaitedSlot].then = "connect"
      /\ disc[AwaitedSlot].pc # "free" /\ disc'[AwaitedSlot].pc = "free"
      /\ ~threw')
       => (/\ cpc' = "deferred"
           /\ socket' = 0 /\ ~microphone' /\ orbState' = Sleeping
           /\ \A s \in 1..nSockets : sockets[s].wired => sockets'[s].rs = "closed")]_vars

\* C24: once an attempt whose socket timed out has run its failure disconnect
\* and reported `connection timeout`, the socket of that attempt is closed.
C24_TimedOutSocketClosed ==
  (/\ cpc = "idle"
   /\ connEvents = <<CONNECTION_TIMEOUT>>
   /\ connSock # 0)
    => sockets[connSock].rs = "closed"

\* C25: the socket attempt starts without waiting for the microphone: while
\* an attempt's microphone request is pending, its socket has been created.
C25_SocketStartsWithMicrophone ==
  cpc = "getNodes" => connSock # 0

\* C26 as stated: a connection handle is held if and only if the session is
\* live, i.e. the socket it refers to is open and the status is active.
C26_Original ==
  (socket # 0) <=> (IsOpen(socket) /\ orbState = Active)

\* C26: whenever the status is active a connection handle is held, and a
\* handle only ever refers to a socket that opened and was wired by a
\* successful connect (never one that is still connecting); the handle may
\* outlive the socket's close.
C26_HandleWhileActive ==
  /\ orbState = Active => socket # 0
  /\ socket # 0 => (sockets[socket].wired /\ sockets[socket].rs # "connecting")

C26_Witness ==
  /\ socket # 0
  /\ sockets[socket].rs = "closed"
  /\ orbState = Active
  /\ \A d \in DiscIds : disc[d].pc = "free"

\* C27: every arming of a configured idle timer leaves a state with no
\* playback segment in flight and no party recorded as speaking, whether it
\* is done by a connect that succeeds on a session holding no socket or by a
\* message or a segment's end on a live one.
C27_ArmedOnlyWhenQuiet ==
  [][LET connected == cpc # "idle" /\ cpc' = "idle" /\ connEvents' = <<SOCKET_OPEN>> IN
     (/\ startIdleTimeout'.fn = "disconnect"
      /\ \/ connected /\ socket = 0
         \/ ~connected /\ ~startIdleTimeout.pending /\ startIdleTimeout'.pending)
       => (scheduledPlaybackSources' = {} /\ activeSender' = NoSender)]_vars

\* C28: a failure event of a connect attempt is dispatched only once the
\* teardown is done: at the step that dispatches it the microphone is
\* released, the connection handle is absent and the status is sleeping.
C28_FailureAfterTeardown ==
  [][(cpc = "failing" /\ cpc' # "failing" /\ ~threw')
       => (/\ connEvents' # <<>>
           /\ dispatched' # <<>>
           /\ dispatched'[Len(dispatched')].variant = connEvents'[Len(connEvents')]
           /\ socket' = 0 /\ ~microphone' /\ orbState' = Sleeping)]_vars

C28_Witness ==
  /\ cpc = "idle"
  /\ r1.isOk
  /\ connEvents = <<CONNECTION_TIMEOUT>>
  /\ Len(dispatched) = 1
  /\ dispatched[1].variant = CONNECTION_TIMEOUT
  /\ socket = 0 /\ ~microphone /\ orbState = Sleeping

\* C29: a connect attempt is all or nothing. It never dispatches two events;
\* when it settles after its preconditions it has dispatched exactly one:
\* `socket open`, with the session then holding its socket and active, or one
\* failure, with no handle held and the status not active; and when both the
\* microphone and the socket failed, the failure is the microphone's.
C29_AllOrNothing ==
  [][/\ Len(connEvents') <= 1
     /\ (cpc \in {"getNodes", "opening", "failing"} /\ cpc' = "idle" /\ ~threw')
          => /\ Len(connEvents') = 1
             /\ connEvents' = <<SOCKET_OPEN>>
                  => (socket' = connSock' /\ orbState' = Active)
             /\ connEvents' # <<SOCKET_OPEN>>
                  => (socket' = 0 /\ orbState' # Active)
             /\ (~r1'.isOk /\ connSock' # 0 /\ sockets'[connSock'].res \in {"closed", "timeout"})
                  => connEvents' = <<FAILED_TO_CONNECT_USER_MEDIA>>]_vars

C29_Witness ==
  /\ cpc = "idle"
  /\ ~r1.isOk
  /\ connSock # 0
  /\ sockets[connSock].res = "closed"
  /\ connEvents = <<FAILED_TO_CONNECT_USER_MEDIA>>
  /\ socket = 0

\* C30: on a successful connect the configuration payload is sent exactly
\* once and is the first message sent on the new socket.
C30_ConfigFirst ==
  (\E i \in DOMAIN sent : sent[i] = "configString")
    => (/\ sent[1] = "configString"
        /\ Cardinality({i \in DOMAIN sent : sent[i] = "configString"}) = 1)

\* C31: when the socket the session holds is open and is closed by the
\* remote party, the element dispatches `socket close` and nothing else, stops
\* forwarding captured audio to it and cancels a pending idle-timer firing;
\* the microphone, the audio wiring, the handle, the status, the playback
\* and the speaking party are left as they were.
C31_RemoteClose ==
  [][(/\ IsOpen(socket) /\ sockets[socket].wired
      /\ sockets'[socket].rs = "closed")
       => (/\ dispatched' = <<Event(SOCKET_CLOSE, "CloseEvent")>>
           /\ ~sockets'[socket].fwd
           /\ ~startIdleTimeout'.pending
           /\ UNCHANGED <<socket, microphone, nodesWired, orbState, ctxState,
                          playVars, activeSender, connVars, disc>>)]_vars

C31_Witness ==
  /\ socket # 0
  /\ sockets[socket].rs = "closed"
  /\ dispatched = <<Event(SOCKET_CLOSE, "CloseEvent")>>
  /\ microphone /\ nodesWired /\ orbState = Active
  /\ ~startIdleTimeout.pending
  /\ startIdleTimeout.fn = "disconnect"
  /\ ~sockets[socket].fwd

C33_ReadsAfterDeferral ==
  [][/\ (cpc = "deferred" /\ cpc' # "deferred")
          => LET failure == IF ~apiKey THEN NO_KEY
                            ELSE IF url = "absent" THEN NO_URL
                            ELSE IF config = "absent" THEN NO_CONFIG
                            ELSE IF ctxState = "none" THEN FAILED_SETUP
                            ELSE "none"
             IN IF failure # "none"
                  THEN cpc' = "idle" /\ connEvents' = <<failure>>
                  ELSE /\ cpc' = "resume"
                       /\ inputs' = [apiKey |-> apiKey, url |-> url]
                       /\ configAttr' = config
     /\ (cpc = "getNodes" /\ cpc' # "getNodes")
          => (connSock' # 0 <=> inputs.url = "valid")]_vars

C33_Witness ==
  /\ cpc = "opening"
  /\ atCall = [apiKey |-> FALSE, url |-> "absent"]
  /\ inputs = [apiKey |-> TRUE, url |-> "valid"]
  /\ connSock # 0

\* C34: the playback cursor changes in two ways only: a step that schedules a
\* segment moves it forward, to the end of that segment, and a stop resets it
\* to unset; so between two stops it never decreases.
C34_CursorMoves ==
  [][startTime' # startTime
       => \/ /\ startTime' = Unset
             /\ scheduledPlaybackSources' = {}
          \/ /\ startTime' > startTime
             /\ \E src \in scheduledPlaybackSources' \ scheduledPlaybackSources :
                  src.end = startTime']_vars

C34_Witness ==
  /\ startTime # Unset
  /\ \E a, b \in scheduledPlaybackSources :
       /\ a.end = b.start
       /\ b.end = startTime
       /\ currentTime > a.start

\* C35: with connect and disconnect called one after the other, each call
\* made once the previous one has finished, at most one socket created by the
\* element is open at any moment.
C35_OneOpenSocket ==
  Cardinality({s \in SockIds : sockets[s].rs = "open"}) <= 1

\* C36: disconnect leaves the recorded speaking party as it is: the party
\* changes only in a step that handles a text frame, never in a step of a
\* disconnect or of a connect attempt, so a party recorded at teardown is still
\* recorded when the next session goes live.
C36_SenderSurvivesDisconnect ==
  [][activeSender' # activeSender
       => (frame'.kind = "text" /\ disc' = disc /\ cpc' = cpc)]_vars

C36_Witness ==
  /\ activeSender = Agent
  /\ socket = 2 /\ IsOpen(socket) /\ orbState = Active
  /\ sockets[1].rs = "closed" /\ sockets[1].wired
  /\ \A d \in DiscIds : disc[d].pc = "free"
  /\ ~midConnect
  /\ dispatched # <<>> /\ dispatched[1].variant = SOCKET_OPEN

\* C37: an absent idle-timeout-ms is not ignored. Removing the attribute, or
\* attaching the element without it, replaces the idle timer by one that
\* disconnects after a delay of zero; while the element is attached and the
\* attribute absent that is the timer in place.
C37_AbsentIsZeroDelay ==
  /\ [][(/\ idleTimeoutMs' = "absent"
          /\ (idleTimeoutMs # "absent" \/ (attached' /\ ~attached)))
           => startIdleTimeout' = [fn |-> "disconnect", delay |-> 0, pending |-> FALSE]]_vars
  /\ []((attached /\ idleTimeoutMs = "absent")
          => (startIdleTimeout.fn = "disconnect" /\ startIdleTimeout.delay = 0))

C37_Witness ==
  /\ attached
  /\ idleTimeoutMs = "absent"
  /\ startIdleTimeout = [fn |-> "disconnect", delay |-> 0, pending |-> FALSE]
  /\ \E d \in 1..MaxDisc : disc[d].pc = "closing" /\ disc[d].reason = "idle timeout"

C39_MostRecentWins ==
  (hoop.orbState # "absent" /\ hoop.raf = <<>>) =>
    /\ hoop.shape.deflation = deflationDepth(hoop.orbState)
    /\ hoop.shape.rockingAngle = rockingAngle(hoop.orbState)

\* the same for changes that each came in an animation frame of their own
C39_AcrossFrames ==
  (hoop.orbState # "absent" /\ hoop.raf = <<>> /\ ~hoop.sameFrame) =>
    /\ hoop.shape.deflation = deflationDepth(hoop.orbState)
    /\ hoop.shape.rockingAngle = rockingAngle(hoop.orbState)

\* several changes in their own frames have settled on the last one's targets
C39_AcrossFramesWitness ==
  /\ hoop.changes >= 2 /\ ~hoop.sameFrame /\ hoop.raf = <<>>
  /\ hoop.shape.deflation = deflationDepth(hoop.orbState)
  /\ hoop.shape.rockingAngle = rockingAngle(hoop.orbState)

====
